---- MODULE Spec2Model ----
(***************************************************************************)
(* Model of my_agent.py: the module-level LaunchDarkly client set-up and   *)
(* the invoke(payload) entrypoint.  One request is handled at a time; the  *)
(* handler is followed statement group by statement group (pc), and every  *)
(* call into an external collaborator (the AI Config lookup, the Agent     *)
(* constructor, the agent call, track_success) either returns or raises.   *)
(* The agent runtime's reply exposes a JSON-serialisable `message`, as its *)
(* interface promises; logging calls do not raise.                         *)
(***************************************************************************)
EXTENDS Naturals, Sequences, FiniteSets, TLC

\* ------------------------------------------------------------------ bounds
MaxRequests == 2
MaxMessages == 2

\* ------------------------------------------------------- Python values
\* A Python value is a tagged record so that values of different Python
\* types can be compared with each other.
None    == [t |-> "none", v |-> ""]
Str(s)  == [t |-> "str", v |-> s]
Int123  == [t |-> "int", v |-> "123"]
\* an attribute the object does not have: reading it raises AttributeError
Missing == [t |-> "missing", v |-> ""]

\* Python truthiness of a value, as used by `if x:`
Truthy(x) == \/ x.t = "str" /\ x.v # ""
             \/ x.t = "int"
             \/ x.t \notin {"none", "str", "int", "missing"}

\* x[:100] works on strings only; anything else raises TypeError
Subscriptable(x) == x.t = "str"

\* dict.get(key, default)
Get(d, k, default) == IF k \in DOMAIN d THEN d[k] ELSE default

DefaultPrompt == "Hello! How can I help you today?"
AnonymousUser == "anonymous-user"

\* ------------------------------------------------- LaunchDarkly objects
Model(n) == [t |-> "model", name |-> n]
Message(r, c) == [role |-> r, content |-> c]
AIConfig(e, m, msgs) == [t |-> "cfg", enabled |-> e, model |-> m, messages |-> msgs]
Tracker == [t |-> "tracker", v |-> ""]
LDAIClient == [t |-> "client", v |-> ""]

FALLBACK_AI_CONFIG == AIConfig(FALSE, None, << >>)

\* what the AI Config service can hand back
Roles    == {Str("system"), Str("user"), Missing}
Contents == {Str(""), Str("Be terse."), Int123}
Models   == {None, Model(Str("")), Model(Str("claude-x"))}
Messages == {Message(r, c) : r \in Roles, c \in Contents}
MessageLists == UNION {[1..n -> Messages] : n \in 0..MaxMessages}
Configs  == {AIConfig(e, m, msgs) : e \in BOOLEAN, m \in Models, msgs \in MessageLists}
Trackers == {Tracker, None}

\* request payloads: any subset of the recognised keys
PayloadValue(k) == IF k = "prompt" THEN "Hi" ELSE "u1"
Payloads == {[k \in ks |-> PayloadValue(k)] : ks \in SUBSET {"prompt", "user_id"}}

VARIABLES
    ld_ai_client,       \* module global: LDAIClient or None
    pc,                 \* position of the handler
    requests,           \* requests received so far
    payload,            \* the request payload
    user_message,       \* payload.get("prompt", ...)
    context_key,        \* payload.get("user_id", ...)
    resolved,           \* what ld_ai_client.config(...) returned (None before)
    config,             \* local `config`
    tracker,            \* local `tracker`
    system_prompt,      \* local `system_prompt`
    model_name,         \* local `model_name`
    agent_kwargs,       \* local `agent_kwargs`
    agent,              \* the Agent built in this request (its kwargs) or None
    result,             \* the agent's reply or None
    response,           \* the mapping returned by invoke, or None
    raised,             \* the steps of this request that raised
    lookupCalls,        \* ld_ai_client.config calls in this request
    agentConstructs,    \* Agent(...) calls in this request
    agentCalls,         \* agent(user_message) calls in this request
    trackSuccessCalls,  \* tracker.track_success() calls in this request
    trackErrorCalls,    \* tracker.track_error() calls in this request
    responses           \* values returned by invoke in this request

locals == <<payload, user_message, context_key, resolved, config, tracker,
            system_prompt, model_name, agent_kwargs, agent, result>>
counters == <<lookupCalls, agentConstructs, agentCalls, trackSuccessCalls,
              trackErrorCalls, responses>>
vars == <<ld_ai_client, pc, requests, locals, response, raised, counters>>

\* ------------------------------------------------------------ start-up
\* lines 75-89: the client exists only if the key is set and set-up works
InitClient(serverKeySet, initOk) ==
    IF serverKeySet /\ initOk THEN LDAIClient ELSE None

Init ==
    /\ \E serverKeySet \in BOOLEAN, initOk \in BOOLEAN :
          ld_ai_client = InitClient(serverKeySet, initOk)
    /\ pc = "idle"
    /\ requests = 0
    /\ payload = << >>
    /\ user_message = None
    /\ context_key = None
    /\ resolved = None
    /\ config = None
    /\ tracker = None
    /\ system_prompt = None
    /\ model_name = None
    /\ agent_kwargs = << >>
    /\ agent = None
    /\ result = None
    /\ response = None
    /\ raised = {}
    /\ lookupCalls = 0
    /\ agentConstructs = 0
    /\ agentCalls = 0
    /\ trackSuccessCalls = 0
    /\ trackErrorCalls = 0
    /\ responses = 0

\* ------------------------------------------------------- pure helpers
\* `if ld_ai_client:`
ClientAvailable_Always(c) == TRUE
ClientAvailable(c) == Truthy(c)

\* lines 160-161
ModelName(cfg) ==
    IF Truthy(cfg.model) /\ cfg.model.t = "model" THEN cfg.model.name ELSE None

\* lines 167-171: the loop over config.messages, from index i on.
\* prompt is the value left in system_prompt, raised tells whether the
\* loop body raised (msg.role missing, or content[:100] on a non-string).
RECURSIVE ScanMessages_NoBreak(_, _)
ScanMessages_NoBreak(msgs, i) ==
    IF i > Len(msgs) THEN [prompt |-> None, raised |-> FALSE]
    ELSE IF msgs[i].role = Missing THEN [prompt |-> None, raised |-> TRUE]
    ELSE IF msgs[i].role = Str("system") /\ ~Subscriptable(msgs[i].content)
         THEN [prompt |-> msgs[i].content, raised |-> TRUE]
    ELSE LET rest == ScanMessages_NoBreak(msgs, i + 1) IN
         IF msgs[i].role = Str("system") /\ rest.prompt = None
         THEN [prompt |-> msgs[i].content, raised |-> rest.raised]
         ELSE rest

RECURSIVE ScanMessages(_, _)
ScanMessages(msgs, i) ==
    IF i > Len(msgs) THEN [prompt |-> None, raised |-> FALSE]
    ELSE IF msgs[i].role = Missing THEN [prompt |-> None, raised |-> TRUE]
    ELSE IF msgs[i].role = Str("system")
         THEN [prompt |-> msgs[i].content,
               raised |-> ~Subscriptable(msgs[i].content)]
         ELSE ScanMessages(msgs, i + 1)

\* lines 158-173: what the try block leaves in model_name and system_prompt
Extract_IgnoreEnabled(cfg) ==
    LET s == ScanMessages(cfg.messages, 1) IN
    [model_name |-> ModelName(cfg), system_prompt |-> s.prompt, raised |-> s.raised]

Extract(cfg) ==
    IF cfg.enabled
    THEN LET s == ScanMessages(cfg.messages, 1) IN
         [model_name |-> ModelName(cfg), system_prompt |-> s.prompt,
          raised |-> s.raised]
    ELSE [model_name |-> None, system_prompt |-> None, raised |-> FALSE]

\* lines 184-192
BuildKwargs_PassEmpty(sp, mn) ==
    [k \in {x \in {"system_prompt", "model"} :
               IF x = "system_prompt" THEN sp # None ELSE mn # None}
       |-> IF k = "system_prompt" THEN sp ELSE mn]

BuildKwargs(sp, mn) ==
    [k \in {x \in {"system_prompt", "model"} :
               IF x = "system_prompt" THEN Truthy(sp) ELSE Truthy(mn)}
       |-> IF k = "system_prompt" THEN sp ELSE mn]

\* line 210: `if tracker and config and config.enabled:`
ShouldTrack_AnyConfig(trk, cfg) == Truthy(trk)
ShouldTrack(trk, cfg) == Truthy(trk) /\ Truthy(cfg) /\ cfg.enabled

\* the reply of the agent runtime to a message
Reply(agt, msg) == [t |-> "result", message |-> <<"reply to", msg>>]

\* ------------------------------------------------------------- actions
\* lines 104-145 and 178-179: a request arrives; locals are reset
Receive ==
    /\ pc \in {"idle", "done"}
    /\ requests < MaxRequests
    /\ \E p \in Payloads :
         /\ payload' = p
         /\ user_message' = Str(Get(p, "prompt", DefaultPrompt))
         /\ context_key' = IF ClientAvailable(ld_ai_client)
                           THEN Str(Get(p, "user_id", AnonymousUser))
                           ELSE None
    /\ requests' = requests + 1
    /\ system_prompt' = None
    /\ model_name' = None
    /\ config' = None
    /\ tracker' = None
    /\ resolved' = None
    /\ agent_kwargs' = << >>
    /\ agent' = None
    /\ result' = None
    /\ response' = None
    /\ raised' = {}
    /\ lookupCalls' = 0
    /\ agentConstructs' = 0
    /\ agentCalls' = 0
    /\ trackSuccessCalls' = 0
    /\ trackErrorCalls' = 0
    /\ responses' = 0
    /\ pc' = IF ClientAvailable(ld_ai_client) THEN "lookup" ELSE "kwargs"
    /\ UNCHANGED ld_ai_client

\* lines 148-153 raise, lines 175-177 catch
LookupRaises_Propagates ==
    /\ pc = "lookup"
    /\ lookupCalls' = lookupCalls + 1
    /\ raised' = raised \cup {"lookup"}
    /\ pc' = "except"
    /\ UNCHANGED <<ld_ai_client, requests, locals, response, agentConstructs,
                   agentCalls, trackSuccessCalls, trackErrorCalls, responses>>

LookupRaises ==
    /\ pc = "lookup"
    /\ lookupCalls' = lookupCalls + 1
    /\ raised' = raised \cup {"lookup"}
    /\ config' = FALLBACK_AI_CONFIG
    /\ pc' = "kwargs"
    /\ UNCHANGED <<ld_ai_client, requests, payload, user_message, context_key,
                   resolved, tracker, system_prompt, model_name, agent_kwargs,
                   agent, result, response, agentConstructs, agentCalls,
                   trackSuccessCalls, trackErrorCalls, responses>>

\* lines 148-156: the lookup returns (config, tracker)
LookupReturns ==
    /\ pc = "lookup"
    /\ lookupCalls' = lookupCalls + 1
    /\ \E cfg \in Configs, trk \in Trackers :
         /\ config' = cfg
         /\ resolved' = cfg
         /\ tracker' = trk
    /\ pc' = "extract"
    /\ UNCHANGED <<ld_ai_client, requests, payload, user_message, context_key,
                   system_prompt, model_name, agent_kwargs, agent, result,
                   response, raised, agentConstructs, agentCalls,
                   trackSuccessCalls, trackErrorCalls, responses>>

\* lines 158-177: extraction; an error in it is caught by the same except
ExtractConfig ==
    /\ pc = "extract"
    /\ LET e == Extract(config) IN
         /\ model_name' = e.model_name
         /\ system_prompt' = e.system_prompt
         /\ config' = IF e.raised THEN FALLBACK_AI_CONFIG ELSE config
         /\ raised' = IF e.raised THEN raised \cup {"extract"} ELSE raised
    /\ pc' = "kwargs"
    /\ UNCHANGED <<ld_ai_client, requests, payload, user_message, context_key,
                   resolved, tracker, agent_kwargs, agent, result, response,
                   counters>>

\* lines 184-196
PrepareKwargs ==
    /\ pc = "kwargs"
    /\ agent_kwargs' = BuildKwargs(system_prompt, model_name)
    /\ pc' = "construct"
    /\ UNCHANGED <<ld_ai_client, requests, payload, user_message, context_key,
                   resolved, config, tracker, system_prompt, model_name, agent,
                   result, response, raised, counters>>

\* line 198
ConstructAgent ==
    /\ pc = "construct"
    /\ agentConstructs' = agentConstructs + 1
    /\ agent' = [t |-> "agent", kwargs |-> agent_kwargs]
    /\ pc' = "call"
    /\ UNCHANGED <<ld_ai_client, requests, payload, user_message, context_key,
                   resolved, config, tracker, system_prompt, model_name,
                   agent_kwargs, result, response, raised, lookupCalls,
                   agentCalls, trackSuccessCalls, trackErrorCalls, responses>>

ConstructAgentRaises ==
    /\ pc = "construct"
    /\ agentConstructs' = agentConstructs + 1
    /\ raised' = raised \cup {"construct"}
    /\ pc' = "except"
    /\ UNCHANGED <<ld_ai_client, requests, locals, response, lookupCalls,
                   agentCalls, trackSuccessCalls, trackErrorCalls, responses>>

\* line 205
CallAgent ==
    /\ pc = "call"
    /\ agentCalls' = agentCalls + 1
    /\ result' = Reply(agent, user_message)
    /\ pc' = "track"
    /\ UNCHANGED <<ld_ai_client, requests, payload, user_message, context_key,
                   resolved, config, tracker, system_prompt, model_name,
                   agent_kwargs, agent, response, raised, lookupCalls,
                   agentConstructs, trackSuccessCalls, trackErrorCalls,
                   responses>>

CallAgentRaises ==
    /\ pc = "call"
    /\ agentCalls' = agentCalls + 1
    /\ raised' = raised \cup {"call"}
    /\ pc' = "except"
    /\ UNCHANGED <<ld_ai_client, requests, locals, response, lookupCalls,
                   agentConstructs, trackSuccessCalls, trackErrorCalls,
                   responses>>

\* lines 210-212
TrackSuccess ==
    /\ pc = "track"
    /\ ShouldTrack(tracker, config)
    /\ trackSuccessCalls' = trackSuccessCalls + 1
    /\ pc' = "respond"
    /\ UNCHANGED <<ld_ai_client, requests, locals, response, raised,
                   lookupCalls, agentConstructs, agentCalls, trackErrorCalls,
                   responses>>

TrackSuccessRaises ==
    /\ pc = "track"
    /\ ShouldTrack(tracker, config)
    /\ trackSuccessCalls' = trackSuccessCalls + 1
    /\ raised' = raised \cup {"track"}
    /\ pc' = "except"
    /\ UNCHANGED <<ld_ai_client, requests, locals, response, lookupCalls,
                   agentConstructs, agentCalls, trackErrorCalls, responses>>

SkipTracking ==
    /\ pc = "track"
    /\ ~ShouldTrack(tracker, config)
    /\ pc' = "respond"
    /\ UNCHANGED <<ld_ai_client, requests, locals, response, raised, counters>>

\* lines 215-244
Respond ==
    /\ pc = "respond"
    /\ response' = [k \in {"result"} |-> result.message]
    /\ responses' = responses + 1
    /\ pc' = "done"
    /\ UNCHANGED <<ld_ai_client, requests, locals, raised, lookupCalls,
                   agentConstructs, agentCalls, trackSuccessCalls,
                   trackErrorCalls>>

\* lines 246-261
HandleException_Retry ==
    /\ pc = "except"
    /\ pc' = IF agent # None /\ agentCalls < 2 THEN "call" ELSE "done"
    /\ response' = IF agent # None /\ agentCalls < 2 THEN response
                   ELSE [k \in {"error"} |-> "Error"]
    /\ responses' = IF agent # None /\ agentCalls < 2 THEN responses
                    ELSE responses + 1
    /\ UNCHANGED <<ld_ai_client, requests, locals, raised, lookupCalls,
                   agentConstructs, agentCalls, trackSuccessCalls,
                   trackErrorCalls>>

HandleException ==
    /\ pc = "except"
    /\ response' = [k \in {"error"} |-> "Error"]
    /\ responses' = responses + 1
    /\ pc' = "done"
    /\ UNCHANGED <<ld_ai_client, requests, locals, raised, lookupCalls,
                   agentConstructs, agentCalls, trackSuccessCalls,
                   trackErrorCalls>>

Next ==
    \/ Receive
    \/ LookupRaises
    \/ LookupReturns
    \/ ExtractConfig
    \/ PrepareKwargs
    \/ ConstructAgent
    \/ ConstructAgentRaises
    \/ CallAgent
    \/ CallAgentRaises
    \/ TrackSuccess
    \/ TrackSuccessRaises
    \/ SkipTracking
    \/ Respond
    \/ HandleException

Spec == Init /\ [][Next]_vars

\* ------------------------------------------------------------ properties
\* the agent keyword arguments have been assembled in this request
KwargsBuilt == pc \in {"construct", "call", "track", "respond"} \/ agentConstructs > 0

NoKwargs == << >>

\* the agent call of this request returned a reply
InvocationSucceeded == result # None

\* agent construction or the agent call raised
AgentFailed == raised \cap {"construct", "call"} # {}

\* the handle and the effective config allow telemetry
TrackingActive == tracker # None /\ config # None /\ config.enabled

\* a value as a sparse override: unset and empty both mean "omitted"
NonEmpty(x) == x # None /\ x # Str("")
Sparse(x) == IF NonEmpty(x) THEN x ELSE None

\* the override the constructed agent received under key k, None if omitted
Passed(k) == IF k \in DOMAIN agent.kwargs THEN agent.kwargs[k] ELSE None

SystemIndexes(msgs) == {i \in 1..Len(msgs) : msgs[i].role = Str("system")}
FirstSystemContent(msgs) ==
    IF SystemIndexes(msgs) = {} THEN None
    ELSE msgs[CHOOSE i \in SystemIndexes(msgs) :
                 \A j \in SystemIndexes(msgs) : i <= j].content

\* the precedence with a fall-back to the first message of the list
PrecedenceWithFirstMessage(msgs) ==
    IF SystemIndexes(msgs) # {} THEN FirstSystemContent(msgs)
    ELSE IF Len(msgs) > 0 THEN msgs[1].content
    ELSE None

\* C1: when the AI Config lookup raises, the handler substitutes the
\* fallback config (disabled, no prompt, no model), still constructs and
\* calls the agent with no overrides, and answers {error} only if agent
\* construction or the agent call raised.
C1_LookupFailureFallsBack ==
    "lookup" \in raised =>
        /\ config = FALLBACK_AI_CONFIG
        /\ system_prompt = None
        /\ model_name = None
        /\ KwargsBuilt => agent_kwargs = NoKwargs
        /\ agent # None => agent.kwargs = NoKwargs
        /\ pc = "done" => /\ agentConstructs = 1
                          /\ agent # None => agentCalls = 1
                          /\ "error" \in DOMAIN response => AgentFailed

C1_Witness ==
    /\ "lookup" \in raised
    /\ pc = "done"
    /\ agentCalls = 1
    /\ "result" \in DOMAIN response

\* C2 (as claimed): a request whose agent construction or call raised, with
\* a tracking handle and an enabled config, made exactly one track_error()
\* call and no track_success() call by the time it answers.
C2_ErrorTrackedOnce ==
    (pc = "done" /\ AgentFailed /\ TrackingActive)
        => (trackErrorCalls = 1 /\ trackSuccessCalls = 0)

C4_TrackingContract ==
    /\ trackSuccessCalls <= 1
    /\ (InvocationSucceeded /\ TrackingActive /\ pc \in {"respond", "except", "done"})
          => trackSuccessCalls = 1
    /\ (config = None \/ ~config.enabled)
          => (trackSuccessCalls = 0 /\ trackErrorCalls = 0)

C4_Witness ==
    /\ pc = "done"
    /\ TrackingActive
    /\ trackSuccessCalls = 1
    /\ "result" \in DOMAIN response

\* C5: without a configuration client a request makes no lookup, builds the
\* agent with no overrides, makes no tracking call and answers with the
\* agent's reply when the agent call succeeds; and the client stays absent.
C5_NoClientState ==
    ld_ai_client = None =>
        /\ lookupCalls = 0
        /\ resolved = None
        /\ KwargsBuilt => agent_kwargs = NoKwargs
        /\ agent # None => agent.kwargs = NoKwargs
        /\ trackSuccessCalls = 0 /\ trackErrorCalls = 0
        /\ (pc = "done" /\ InvocationSucceeded)
              => response = [k \in {"result"} |-> result.message]

C5_NoClientNoLookup ==
    /\ []C5_NoClientState
    /\ [][ld_ai_client = None => ld_ai_client' = None]_vars

C5_Witness ==
    /\ ld_ai_client = None
    /\ requests = 2
    /\ pc = "done"
    /\ agent # None
    /\ "result" \in DOMAIN response

\* C6: when the config the lookup returned is disabled, neither a system
\* prompt nor a model is extracted, whatever its messages and model field
\* hold, and the agent gets neither override.
C6_DisabledNoExtraction ==
    (resolved # None /\ ~resolved.enabled) =>
        /\ system_prompt = None
        /\ model_name = None
        /\ KwargsBuilt => agent_kwargs = NoKwargs
        /\ agent # None => agent.kwargs = NoKwargs

C6_Witness ==
    /\ resolved # None
    /\ ~resolved.enabled
    /\ resolved.model = Model(Str("claude-x"))
    /\ Len(resolved.messages) > 0
    /\ resolved.messages[1] = Message(Str("system"), Str("Be terse."))
    /\ agent # None
    /\ agent.kwargs = NoKwargs

\* C7: the agent is called at most once per request, exactly once when it
\* was constructed, never again after a failure; a finished request has
\* exactly one response, carrying either result or error and never both.
C7_OneCallOneResponse ==
    /\ agentConstructs <= 1
    /\ agentCalls <= 1
    /\ responses <= 1
    /\ "construct" \in raised => agentCalls = 0
    /\ pc = "done" =>
          /\ responses = 1
          /\ response # None
          /\ DOMAIN response \in {{"result"}, {"error"}}
          /\ agent # None => agentCalls = 1
    /\ pc \notin {"done", "idle"} => (responses = 0 /\ response = None)

C7_Witness ==
    /\ pc = "done"
    /\ "call" \in raised
    /\ agentCalls = 1
    /\ DOMAIN response = {"error"}

\* C8: the agent's keyword arguments are sparse: system_prompt is present
\* exactly when a non-empty system prompt was resolved, model exactly when a
\* non-empty model name was resolved, and a present key carries the
\* resolved value unchanged.
C8_SparseKwargs ==
    KwargsBuilt =>
        /\ DOMAIN agent_kwargs \subseteq {"system_prompt", "model"}
        /\ "system_prompt" \in DOMAIN agent_kwargs <=> NonEmpty(system_prompt)
        /\ "model" \in DOMAIN agent_kwargs <=> NonEmpty(model_name)
        /\ "system_prompt" \in DOMAIN agent_kwargs
              => agent_kwargs["system_prompt"] = system_prompt
        /\ "model" \in DOMAIN agent_kwargs => agent_kwargs["model"] = model_name
        /\ agent # None => agent.kwargs = agent_kwargs

C8_Witness ==
    /\ agent # None
    /\ system_prompt = Str("")
    /\ model_name = Str("claude-x")
    /\ DOMAIN agent.kwargs = {"model"}
    /\ agent.kwargs["model"] = Str("claude-x")

\* C9 (as claimed): whenever the except branch substituted the fallback
\* config, at whatever step the try block failed, the agent keyword
\* arguments are empty.
C9_FallbackCarriesNoOverrides ==
    (raised \cap {"lookup", "extract"} # {} /\ config = FALLBACK_AI_CONFIG /\ KwargsBuilt)
        => agent_kwargs = NoKwargs

\* C10 (as claimed): a request that called track_success() answers with
\* {result: ...}, never with {error: ...}.
C10_SuccessNeverError ==
    (pc = "done" /\ trackSuccessCalls > 0) => "result" \in DOMAIN response

====
